---- MODULE Spec2Model ----
(***************************************************************************)
(* Model of the independent API monitor (src/monitor.py, src/config.py).   *)
(*                                                                         *)
(* One APIMonitor runs monitor_loop: a health-check GET, the notification  *)
(* decision and message formatting, an optional webhook POST, the update   *)
(* of last_status, and a fixed sleep.  The wall clock is kept in seconds   *)
(* within the current hour; it advances by the latency of each HTTP call   *)
(* and by the sleep, and the decision reads its minute.                    *)
(***************************************************************************)
EXTENDS Integers, Sequences, FiniteSets, TLC

VARIABLES
    pc,             \* position of the process: start-up failed, or where monitor_loop is
    api_url,        \* self.api_url
    discord_webhook, \* self.discord_webhook
    startup_error,  \* the ValueError of Settings(), if it raised
    environ,        \* os.environ: the environment the process was started in
    in_flight,      \* health-check GETs issued and not yet completed
    gets,           \* health-check GETs issued in this iteration
    last_status,    \* self.last_status
    health_result,  \* local health_result of the running iteration
    current_status, \* local current_status
    current_minute, \* local current_minute (now_kst.minute)
    status_changed, \* local status_changed
    hourly_report,  \* local hourly_report
    message,        \* local message handed to send_discord_notification
    now,            \* wall clock: seconds since the start of the current hour
    http_outcome,   \* what the GET of this iteration met (input of the check)
    post_log,       \* what send_discord_notification logged in this iteration
    posts,          \* webhook POSTs issued in this iteration
    raised,         \* the iteration ended in the handler of line 145
    prev_cycle,     \* the previous iteration: whether it raised, else the status
                    \* its check returned and whether its POST failed
    status_before,  \* self.last_status as the running iteration found it
    hour_report     \* whether this clock hour has had its minute-0 report

vars == << pc, api_url, discord_webhook, startup_error, environ, in_flight, gets, last_status, health_result, current_status, current_minute,
           status_changed, hourly_report, message, now, http_outcome,
           post_log, posts, raised, prev_cycle, status_before, hour_report >>

----------------------------------------------------------------------------
(* Program constants *)

check_interval == 60

RequestTimeout == 10

SecondsPerMinute == 60

MinutesPerHour == 60

KstOffsetHours == 9

SuccessCode == 204

OkCode == 200

SecondsPerHour == SecondsPerMinute * MinutesPerHour

DefaultServerUrl == "http://localhost:8000"

None == "None"

Statuses == {"healthy", "unhealthy", "down"}

NoField == "-"

----------------------------------------------------------------------------
(* config.py: Settings() reads the environment and validates it *)

\* an environment: each variable unset (None), empty or set
Environments ==
    [SERVER_URL : {None, "", "http://api.example:9000"},
     DISCORD_HEART_URL : {None, "", "https://discord.example/webhook"}]

\* os.getenv(name, default)
Getenv(env, name, default) == IF env[name] = None THEN default ELSE env[name]

\* Python's `not value` for an Optional[str]
Falsy(value) == value \in {None, ""}

\* _validate_settings without the check of DISCORD_HEART_URL
ValidateSettings_WebhookOptional(s) ==
    IF Falsy(s.SERVER_URL) THEN "ValueError: SERVER_URL" ELSE NoField

\* _validate_settings: the ValueError raised, or NoField
ValidateSettings(s) ==
    IF Falsy(s.DISCORD_HEART_URL)
    THEN "ValueError: DISCORD_HEART_URL"
    ELSE IF Falsy(s.SERVER_URL) THEN "ValueError: SERVER_URL" ELSE NoField

\* Settings.__init__
Settings(env) ==
    [SERVER_URL |-> Getenv(env, "SERVER_URL", DefaultServerUrl),
     DISCORD_HEART_URL |-> Getenv(env, "DISCORD_HEART_URL", None)]

----------------------------------------------------------------------------
(* Inputs: what the two HTTP calls can meet *)

Response(code, body, header) ==
    [kind |-> "response", code |-> code, body |-> body, header |-> header, exc |-> NoField]

Failure(exc) ==
    [kind |-> "raise", code |-> 0, body |-> NoField, header |-> NoField, exc |-> exc]

\* the health endpoint: 200 with a JSON body (with or without the
\* X-Process-Time header), 200 with a body that is not JSON, other codes,
\* and the transport failures
GetOutcomes ==
    { Response(OkCode, "json", "0.012"), Response(OkCode, "json", NoField),
      Response(OkCode, "malformed", NoField),
      Response(404, NoField, NoField), Response(500, NoField, NoField),
      Failure("ClientConnectorError"), Failure("TimeoutError"), Failure("OtherError") }

\* the webhook: 204, another code, or a transport error
PostOutcomes ==
    { Response(SuccessCode, NoField, NoField), Response(500, NoField, NoField),
      Failure("RequestException") }

\* an HTTP call answers at once or takes the whole timeout
Latencies == {0, RequestTimeout}

StartTimes == { t \in 0 .. (SecondsPerHour - 1) : t % RequestTimeout = 0 }

----------------------------------------------------------------------------
(* check_api_health *)

NoError == [kind |-> NoField, code |-> 0, exc |-> NoField]

HttpError(code) == [kind |-> "HTTP", code |-> code, exc |-> NoField]

ConnectionRefused == [kind |-> "Connection refused", code |-> 0, exc |-> NoField]

TimeoutError10s == [kind |-> "Request timeout (10s)", code |-> 0, exc |-> NoField]

StrOf(e) == [kind |-> "str(e)", code |-> 0, exc |-> e]

NoResult == [status |-> None, response_time |-> NoField, error |-> NoError]

NoOutcome == [kind |-> None, code |-> 0, body |-> NoField, header |-> NoField, exc |-> NoField]

Returned(v) == [raised |-> NoField, value |-> v]

Raised(e) == [raised |-> e, value |-> NoResult]

\* the body of the try block, lines 33-46: a return value or an exception
HealthTryBody(o) ==
    IF o.kind = "raise"
    THEN Raised(o.exc)
    ELSE IF o.code = OkCode
         THEN IF o.body = "json"
              THEN Returned([status |-> "healthy",
                             response_time |-> IF o.header = NoField THEN "unknown" ELSE o.header,
                             error |-> NoError])
              ELSE Raised("ContentTypeError")
         ELSE Returned([status |-> "unhealthy", response_time |-> NoField,
                        error |-> HttpError(o.code)])

\* HealthExcept without the catch-all clause of line 57
HealthExcept_NoCatchAll(e) ==
    IF e = "ClientConnectorError"
    THEN Returned([status |-> "down", response_time |-> NoField, error |-> ConnectionRefused])
    ELSE IF e = "TimeoutError"
         THEN Returned([status |-> "unhealthy", response_time |-> NoField,
                        error |-> TimeoutError10s])
         ELSE Raised(e)

\* the except clauses, in the order of lines 47-61; the last one takes
\* every Exception, so each of them returns
HealthExcept(e) ==
    IF e = "ClientConnectorError"
    THEN Returned([status |-> "down", response_time |-> NoField, error |-> ConnectionRefused])
    ELSE IF e = "TimeoutError"
         THEN Returned([status |-> "unhealthy", response_time |-> NoField,
                        error |-> TimeoutError10s])
         ELSE Returned([status |-> "unhealthy", response_time |-> NoField,
                        error |-> StrOf(e)])

\* how the call of line 92 completes: a returned result, or an exception
\* handed on to monitor_loop
check_api_health(o) ==
    LET r == HealthTryBody(o)
    IN  IF r.raised = NoField THEN r ELSE HealthExcept(r.raised)

----------------------------------------------------------------------------
(* The clock *)

KstMinute(t) ==
    ((t + KstOffsetHours * SecondsPerHour) % SecondsPerHour) \div SecondsPerMinute

NoMinute == 0 - 1

\* the report of the running clock hour: "partial" while the loop started
\* within it, "pending" once an hour has begun with the loop running,
\* "sent" after a cycle that ran at minute 0 posted, "missed" once a cycle
\* ran at a later minute of an hour still pending
HourAfter(d, h) == IF now + d >= SecondsPerHour THEN "pending" ELSE h

Advance(d, h) ==
    /\ now' = (now + d) % SecondsPerHour
    /\ hour_report' = HourAfter(d, h)

----------------------------------------------------------------------------
(* The decision and the message, lines 101-138 *)

\* StatusChanged comparing last_status with the whole result dict
StatusChanged_Always(last, current) == TRUE

StatusChanged(last, current) == last # current

\* HourlyReport true at every minute
HourlyReport_EveryMinute(minute) == TRUE

HourlyReport(minute) == minute = 0

\* ShouldNotify without the hourly report
ShouldNotify_OnlyOnChange(changed, hourly) == changed

ShouldNotify(changed, hourly) == changed \/ hourly

\* Template with the two healthy branches exchanged
Template_Exchanged(current, changed) ==
    IF current = "healthy"
    THEN IF changed THEN "scheduled check" ELSE "recovered"
    ELSE IF current = "down" THEN "server down" ELSE "degraded"

Template(current, changed) ==
    IF current = "healthy"
    THEN IF changed THEN "recovered" ELSE "scheduled check"
    ELSE IF current = "down" THEN "server down" ELSE "degraded"

NoMessage == [template |-> None, response_time |-> NoField, error |-> NoError, server |-> NoField]

\* BuildMessage naming the default server instead of self.api_url
BuildMessage_DefaultServer(result, changed, url) ==
    [template |-> Template(result.status, changed),
     response_time |-> IF result.status = "healthy" THEN result.response_time ELSE NoField,
     error |-> IF result.status = "healthy" THEN NoError ELSE result.error,
     server |-> DefaultServerUrl]

\* healthy messages carry the response time, the others the error (the .get
\* defaults of lines 112 and 128); every message ends with the server
BuildMessage(result, changed, url) ==
    [template |-> Template(result.status, changed),
     response_time |-> IF result.status = "healthy" THEN result.response_time ELSE NoField,
     error |-> IF result.status = "healthy" THEN NoError ELSE result.error,
     server |-> url]

----------------------------------------------------------------------------
(* send_discord_notification: the log line is all it leaves behind *)

\* lines 78-84: which line is logged for what the POST met
NotifierLog(r) ==
    IF r.kind = "raise"
    THEN "error: send raised"
    ELSE IF r.code = SuccessCode THEN "info: sent" ELSE "error: send failed"

\* send_discord_notification catching only the non-204 answers
send_discord_notification_Propagates(r) ==
    IF r.kind = "raise"
    THEN [raised |-> r.exc, log |-> None]
    ELSE [raised |-> NoField, log |-> NotifierLog(r)]

\* how the call of line 140 completes: the except clause of line 83 takes
\* every Exception of the POST, so it returns
send_discord_notification(r) == [raised |-> NoField, log |-> NotifierLog(r)]

NoCycle == [status |-> None, post_failed |-> FALSE, raised |-> FALSE]

----------------------------------------------------------------------------
\* last_status starting as healthy
InitialLastStatus_Healthy == "healthy"

\* line 28
InitialLastStatus == None

\* the handler leaving the loop
AfterExcept_Terminate == "terminated"

\* lines 145-148: the handler logs and falls through to the sleep
AfterExcept == "sleep"

(* State after `from config import settings` (line 12) and, when that did  *)
(* not raise, after APIMonitor() and the first line of monitor_loop        *)

Init ==
    /\ environ \in Environments
    /\ LET settings == Settings(environ)
           error == ValidateSettings(settings)
       IN  IF error # NoField
           THEN /\ pc = "startup_failed"
                /\ startup_error = error
                /\ api_url = NoField
                /\ discord_webhook = NoField
           ELSE /\ pc = "check"
                /\ startup_error = NoField
                /\ api_url = settings.SERVER_URL
                /\ discord_webhook = settings.DISCORD_HEART_URL
    /\ in_flight = 0
    /\ gets = 0
    /\ last_status = InitialLastStatus
    /\ status_before = InitialLastStatus
    /\ health_result = NoResult
    /\ current_status = None
    /\ current_minute = NoMinute
    /\ status_changed = FALSE
    /\ hourly_report = FALSE
    /\ message = NoMessage
    /\ now \in StartTimes
    /\ http_outcome = NoOutcome
    /\ post_log = None
    /\ posts = 0
    /\ raised = FALSE
    /\ prev_cycle = NoCycle
    /\ hour_report = "partial"

\* StartHealthCheck handing the GET to a task instead of awaiting it
StartHealthCheck_NoAwait ==
    /\ pc = "check"
    /\ in_flight' = in_flight + 1
    /\ gets' = gets + 1
    /\ UNCHANGED << pc, api_url, discord_webhook, startup_error, environ, last_status,
                    health_result, current_status, current_minute, status_changed,
                    hourly_report, message, now, http_outcome, post_log, posts,
                    raised, prev_cycle, status_before, hour_report >>

\* lines 33-34: the GET is issued and monitor_loop waits for it at line 92
StartHealthCheck ==
    /\ pc = "check"
    /\ in_flight' = in_flight + 1
    /\ gets' = gets + 1
    /\ pc' = "awaiting"
    /\ UNCHANGED << api_url, discord_webhook, startup_error, environ, last_status,
                    health_result, current_status, current_minute, status_changed,
                    hourly_report, message, now, http_outcome, post_log, posts,
                    raised, prev_cycle, status_before, hour_report >>

\* line 92: the GET ends and is classified; the clock has moved by its latency
CheckApiHealth ==
    /\ pc = "awaiting"
    /\ in_flight' = in_flight - 1
    /\ \E o \in GetOutcomes, d \in Latencies :
          LET done == check_api_health(o)
          IN  /\ http_outcome' = o
              /\ health_result' = done.value
              /\ raised' = (done.raised # NoField)
              /\ pc' = IF done.raised = NoField THEN "policy" ELSE AfterExcept
              /\ Advance(d, hour_report)
    /\ UNCHANGED << api_url, discord_webhook, startup_error, environ, gets, last_status,
                    status_before, current_status, current_minute, status_changed,
                    hourly_report, message, post_log, posts, prev_cycle >>

\* DecideAndFormat repeating the notification after a POST that failed
DecideAndFormat_RepeatsAfterFailedPost ==
    /\ pc = "policy"
    /\ LET cs == health_result.status
           minute == KstMinute(now)
           changed == StatusChanged(last_status, cs) \/ prev_cycle.post_failed
           hourly == HourlyReport(minute)
       IN  /\ current_status' = cs
           /\ current_minute' = minute
           /\ status_changed' = changed
           /\ hourly_report' = hourly
           /\ IF ShouldNotify(changed, hourly)
              THEN /\ message' = BuildMessage(health_result, changed, api_url)
                   /\ pc' = "send"
              ELSE /\ message' = NoMessage
                   /\ pc' = "update"
           /\ hour_report' = IF hour_report = "pending" /\ minute # 0
                             THEN "missed" ELSE hour_report
    /\ UNCHANGED << api_url, discord_webhook, startup_error, environ, in_flight, gets, last_status,
                    health_result, now, http_outcome, post_log, posts, raised,
                    prev_cycle, status_before >>

\* lines 93-138: read the status and the minute, decide, format
DecideAndFormat ==
    /\ pc = "policy"
    /\ LET cs == health_result.status
           minute == KstMinute(now)
           changed == StatusChanged(last_status, cs)
           hourly == HourlyReport(minute)
       IN  /\ current_status' = cs
           /\ current_minute' = minute
           /\ status_changed' = changed
           /\ hourly_report' = hourly
           /\ IF ShouldNotify(changed, hourly)
              THEN /\ message' = BuildMessage(health_result, changed, api_url)
                   /\ pc' = "send"
              ELSE /\ message' = NoMessage
                   /\ pc' = "update"
           /\ hour_report' = IF hour_report = "pending" /\ minute # 0
                             THEN "missed" ELSE hour_report
    /\ UNCHANGED << api_url, discord_webhook, startup_error, environ, in_flight, gets, last_status,
                    health_result, now, http_outcome, post_log, posts, raised,
                    prev_cycle, status_before >>

\* SendDiscordNotification posting again until a POST is answered with 204
SendDiscordNotification_Retry ==
    /\ pc = "send"
    /\ \E r \in PostOutcomes, d \in Latencies :
          LET done == send_discord_notification(r)
          IN  /\ post_log' = done.log
              /\ raised' = (done.raised # NoField)
              /\ pc' = IF done.raised # NoField THEN AfterExcept
                       ELSE IF done.log = "info: sent" THEN "update" ELSE "send"
              /\ Advance(d, IF current_minute = 0 THEN "sent" ELSE hour_report)
    /\ posts' = posts + 1
    /\ UNCHANGED << api_url, discord_webhook, startup_error, environ, in_flight, gets,
                    last_status, health_result, current_status, current_minute,
                    status_changed, hourly_report, message, http_outcome,
                    prev_cycle, status_before >>

\* line 140, lines 63-84: one POST; whatever it meets is logged and swallowed
SendDiscordNotification ==
    /\ pc = "send"
    /\ \E r \in PostOutcomes, d \in Latencies :
          LET done == send_discord_notification(r)
          IN  /\ post_log' = done.log
              /\ raised' = (done.raised # NoField)
              /\ pc' = IF done.raised = NoField THEN "update" ELSE AfterExcept
              /\ Advance(d, IF current_minute = 0 THEN "sent" ELSE hour_report)
    /\ posts' = posts + 1
    /\ UNCHANGED << api_url, discord_webhook, startup_error, environ, in_flight, gets,
                    last_status, health_result, current_status, current_minute,
                    status_changed, hourly_report, message, http_outcome,
                    prev_cycle, status_before >>

\* UpdateLastStatus skipped when the POST was logged as failed
UpdateLastStatus_OnlyAfterSuccess ==
    /\ pc = "update"
    /\ last_status' = IF post_log \in {None, "info: sent"} THEN current_status ELSE last_status
    /\ pc' = "sleep"
    /\ UNCHANGED << api_url, discord_webhook, startup_error, environ, in_flight, gets,
                    health_result, current_status, current_minute, status_changed,
                    hourly_report, message, now, http_outcome, post_log, posts,
                    raised, prev_cycle, status_before, hour_report >>

\* lines 142-143
UpdateLastStatus ==
    /\ pc = "update"
    /\ last_status' = current_status
    /\ pc' = "sleep"
    /\ UNCHANGED << api_url, discord_webhook, startup_error, environ, in_flight, gets,
                    health_result, current_status, current_minute, status_changed,
                    hourly_report, message, now, http_outcome, post_log, posts,
                    raised, prev_cycle, status_before, hour_report >>

\* IterationRaises with a handler that forgets the last status
IterationRaises_ResetsStatus ==
    /\ pc = "policy"
    /\ raised' = TRUE
    /\ pc' = AfterExcept
    /\ last_status' = None
    /\ UNCHANGED << api_url, discord_webhook, startup_error, environ, in_flight, gets,
                    health_result, current_status, current_minute,
                    status_changed, hourly_report, message, now, http_outcome,
                    post_log, posts, prev_cycle, status_before, hour_report >>

\* IterationRaises after a state update moved up to line 93
IterationRaises_PartialUpdate ==
    /\ pc = "policy"
    /\ raised' = TRUE
    /\ pc' = AfterExcept
    /\ last_status' = health_result.status
    /\ UNCHANGED << api_url, discord_webhook, startup_error, environ, in_flight, gets,
                    health_result, current_status, current_minute,
                    status_changed, hourly_report, message, now, http_outcome,
                    post_log, posts, prev_cycle, status_before, hour_report >>

\* lines 145-146: an exception raised in lines 93-138 is logged; the two
\* calls of the try body catch their own
IterationRaises ==
    /\ pc = "policy"
    /\ raised' = TRUE
    /\ pc' = AfterExcept
    /\ UNCHANGED << api_url, discord_webhook, startup_error, environ, in_flight, gets,
                    last_status, health_result, current_status, current_minute,
                    status_changed, hourly_report, message, now, http_outcome,
                    post_log, posts, prev_cycle, status_before, hour_report >>

\* line 148, then the next turn of while True: the locals of the finished
\* iteration are dead and are cleared
Sleep ==
    /\ pc = "sleep"
    /\ Advance(check_interval, hour_report)
    /\ prev_cycle' = [status |-> IF raised THEN None ELSE health_result.status,
                      post_failed |-> post_log \notin {None, "info: sent"},
                      raised |-> raised]
    /\ health_result' = NoResult
    /\ current_status' = None
    /\ current_minute' = NoMinute
    /\ status_changed' = FALSE
    /\ hourly_report' = FALSE
    /\ message' = NoMessage
    /\ http_outcome' = NoOutcome
    /\ post_log' = None
    /\ posts' = 0
    /\ raised' = FALSE
    /\ pc' = "check"
    /\ status_before' = last_status
    /\ gets' = 0
    /\ UNCHANGED << api_url, discord_webhook, startup_error, environ, in_flight, last_status >>

Next ==
    \/ StartHealthCheck
    \/ CheckApiHealth
    \/ DecideAndFormat
    \/ SendDiscordNotification
    \/ UpdateLastStatus
    \/ Sleep

\* The loop as the code runs it.  check_api_health and
\* send_discord_notification catch every Exception of the calls they make,
\* and the statements between them (dict lookups, the clock, string
\* formatting) raise none, so the handler of line 145 is not entered.
Spec == Init /\ [][Next]_vars

\* The same loop when some statement of lines 93-138 does raise an Exception
\* (a fault of the runtime under it): this is what the handler is there for.
NextFault == Next \/ IterationRaises

FaultSpec == Init /\ [][NextFault]_vars

\* the monitor started with SERVER_URL unset
InitDefaultServer == Init /\ api_url = DefaultServerUrl

\* every step of the loop ends: the HTTP calls time out after 10 s, the
\* sleep lasts 60 s, and nothing else waits
FairFaultSpec == InitDefaultServer /\ [][NextFault]_vars /\ WF_vars(NextFault)

----------------------------------------------------------------------------
(* Properties *)

\* the iteration has taken its decision
Decided == pc \in {"send", "update", "sleep"} /\ ~raised

PostFailed == posts > 0 /\ post_log # "info: sent"

\* C1: in every iteration whose health check returned a status, a webhook
\* POST is issued if and only if last_status differed from the status
\* returned or the KST minute was 0; otherwise no POST is issued.
C1_NotifyIffChangedOrHourly ==
    /\ Decided =>
          ((pc = "send" \/ posts = 1) <=>
           (status_before # health_result.status \/ current_minute = 0))
    /\ pc = "sleep" /\ health_result.status \in Statuses =>
          /\ posts \in {0, 1}
          /\ (posts = 1) <=> (status_before # health_result.status \/ current_minute = 0)

C1_Witness_HourlyOnly ==
    /\ pc = "sleep"
    /\ posts = 1
    /\ status_before = health_result.status
    /\ current_minute = 0

\* C2: when two consecutive cycles return the same status and the second
\* runs at a minute other than 0, the second sends no notification,
\* whatever the status and whether or not the first cycle's POST succeeded.
C2_NoRepeatOnSameStatus ==
    ( /\ pc \in {"update", "sleep"}
      /\ prev_cycle.status \in Statuses
      /\ prev_cycle.status = health_result.status
      /\ current_minute # 0 )
    => (posts = 0 /\ message = NoMessage)

C2_Witness_AfterFailedPost ==
    /\ pc = "sleep"
    /\ prev_cycle.post_failed
    /\ prev_cycle.status = health_result.status
    /\ current_minute = 30
    /\ posts = 0

\* C3: when last_status was healthy and the check returns down, a
\* notification is attempted at every minute, and its message is the
\* "server down" template naming the configured server URL.
C3_HealthyToDownNotifies ==
    ( /\ Decided
      /\ status_before = "healthy"
      /\ health_result.status = "down" )
    => /\ current_minute \in 0 .. (MinutesPerHour - 1)
       /\ message.template = "server down"
       /\ message.server = api_url
       /\ pc = "send" \/ posts = 1

C3_Witness_Minute17 ==
    /\ pc = "sleep"
    /\ status_before = "healthy"
    /\ health_result.status = "down"
    /\ current_minute = 17
    /\ posts = 1
    /\ message.template = "server down"
    /\ api_url # DefaultServerUrl

\* C4: whenever a notification is triggered its template is "recovered"
\* for healthy after a change, "scheduled check" for healthy without a
\* change, "server down" for down and "degraded" for any other status.
C4_TemplateTable ==
    (Decided /\ message # NoMessage) =>
        LET changed == status_before # health_result.status
        IN  /\ message.template \in {"recovered", "scheduled check", "server down", "degraded"}
            /\ (health_result.status = "healthy" /\ changed) => message.template = "recovered"
            /\ (health_result.status = "healthy" /\ ~changed) =>
                   (message.template = "scheduled check" /\ current_minute = 0)
            /\ health_result.status = "down" => message.template = "server down"
            /\ health_result.status \notin {"healthy", "down"} => message.template = "degraded"

C4_Witness_ScheduledCheck ==
    /\ pc = "sleep"
    /\ posts = 1
    /\ status_before = "healthy"
    /\ health_result.status = "healthy"
    /\ current_minute = 0
    /\ message.template = "scheduled check"

\* C5: at the end of every check cycle last_status is the status that
\* cycle's health check returned, whether or not a notification was
\* triggered and whatever became of the POST.
C5_LastStatusIsReturnedStatus ==
    pc = "sleep" => (health_result.status \in Statuses /\ last_status = health_result.status)

C5_Witness_AfterTransportError ==
    /\ pc = "sleep"
    /\ post_log = "error: send raised"
    /\ status_before # health_result.status
    /\ last_status = health_result.status

\* C6: in the first iteration after start-up a notification is attempted
\* for every check result and every minute.
C6_FirstIterationNotifies ==
    (Decided /\ prev_cycle = NoCycle) =>
        /\ status_before = None
        /\ message # NoMessage
        /\ pc = "send" \/ posts = 1

C6_Witness_FirstHealthyOffTheHour ==
    /\ pc = "sleep"
    /\ prev_cycle = NoCycle
    /\ health_result.status = "healthy"
    /\ current_minute = 30
    /\ posts = 1

\* C7: check_api_health returns healthy for 200 with a JSON body,
\* unhealthy for 200 with a malformed body, unhealthy with "HTTP {code}"
\* for any other code, down for a connection failure, unhealthy with
\* "Request timeout (10s)" for a timeout and unhealthy for any other
\* exception; it always returns one of the three statuses and never raises.
C7_HealthMapping ==
    http_outcome # NoOutcome =>
        LET o == http_outcome
            r == health_result
        IN  /\ ~raised
            /\ r.status \in Statuses
            /\ (o.kind = "response" /\ o.code = 200 /\ o.body = "json") => r.status = "healthy"
            /\ (o.kind = "response" /\ o.code = 200 /\ o.body # "json") => r.status = "unhealthy"
            /\ (o.kind = "response" /\ o.code # 200) =>
                   (r.status = "unhealthy" /\ r.error.kind = "HTTP" /\ r.error.code = o.code)
            /\ (o.kind = "raise" /\ o.exc = "ClientConnectorError") => r.status = "down"
            /\ (o.kind = "raise" /\ o.exc = "TimeoutError") =>
                   (r.status = "unhealthy" /\ r.error.kind = "Request timeout (10s)")
            /\ (o.kind = "raise" /\ o.exc \notin {"ClientConnectorError", "TimeoutError"}) =>
                   r.status = "unhealthy"

C7_Witness_MalformedBody ==
    /\ pc = "policy"
    /\ http_outcome.kind = "response"
    /\ http_outcome.code = 200
    /\ http_outcome.body = "malformed"
    /\ health_result.status = "unhealthy"

\* C8: a failed notification (a code other than 204, or a transport
\* error) is not propagated and not retried: the cycle still updates
\* last_status and reaches its sleep, and the next cycle decides as it
\* would have after a successful POST.
C8_FailedPostSwallowed ==
    /\ (pc \in {"update", "sleep"} /\ PostFailed) => (~raised /\ posts = 1)
    /\ (pc = "sleep" /\ PostFailed) => last_status = health_result.status
    /\ (pc = "check" /\ prev_cycle.post_failed) =>
          (~prev_cycle.raised /\ last_status = prev_cycle.status /\ posts = 0)
    /\ (pc \in {"update", "sleep"} /\ prev_cycle.post_failed) =>
          ((posts = 1) <=> (prev_cycle.status # health_result.status \/ current_minute = 0))

C8_Witness_NextCycleAfterFailedPost ==
    /\ pc = "sleep"
    /\ prev_cycle.post_failed
    /\ posts = 0
    /\ last_status = prev_cycle.status

\* C9: an exception raised inside an iteration does not end the loop:
\* the sleep follows every iteration, raised or not, the next health check
\* follows the sleep, and under fairness health checks keep happening.
C9_LoopSurvivesExceptions ==
    /\ [](pc # "terminated")
    /\ [][(raised' /\ ~raised) => pc' = "sleep"]_vars
    /\ [][pc = "sleep" => (pc' = "check" /\ last_status' = last_status)]_vars
    /\ []<>(pc \in {"startup_failed", "policy"})

C9_Witness_CheckAfterRaise ==
    /\ pc = "policy"
    /\ prev_cycle.raised
    /\ health_result.status \in Statuses

\* C10: in every clock hour that begins with the loop running, some cycle
\* runs while the KST minute is 0 and sends the hourly report.
C10_ReportEveryHour == hour_report # "missed"

\* C11: two health checks are never in flight: a GET is issued only when
\* no GET is pending, the previous cycle's POST (if any) has ended and the
\* whole sleep has elapsed; only the loop's own update writes last_status.
C11_OneCheckAtATime ==
    /\ [](in_flight \in {0, 1} /\ (in_flight = 1 <=> pc = "awaiting"))
    /\ [][in_flight' > in_flight =>
             (in_flight = 0 /\ pc = "check" /\ posts = 0 /\ http_outcome = NoOutcome)]_vars
    /\ [][pc' = "check" =>
             (pc = "sleep" /\ now' = (now + 60) % 3600)]_vars
    /\ [][pc' = "sleep" => (pc = "update" /\ in_flight = 0)]_vars
    /\ [][last_status' # last_status => pc = "update"]_vars

C11_Witness_CheckInFlightAfterFailedPost ==
    /\ pc = "awaiting"
    /\ in_flight = 1
    /\ gets = 1
    /\ prev_cycle.post_failed

\* C12: the program runs exactly one health check and then terminates (no
\* second cycle ever begins), and in that run a healthy result leads to no
\* POST while an unhealthy or down result leads to exactly one, whatever
\* last_status and the minute are.
C12_SingleCheckMode ==
    /\ prev_cycle = NoCycle
    /\ (pc \in {"update", "sleep"} /\ ~raised) =>
          posts = (IF current_status = "healthy" THEN 0 ELSE 1)

\* C13: the decision of an iteration (whether it notifies, and with which
\* template) is the value of one function of the previous status, the
\* current status and the minute alone: whatever the error text, the
\* response time, the earlier cycles and the fate of earlier POSTs were,
\* equal (previous, current, minute) give an equal (notify?, template).
PolicyOf(previous, current, minute) ==
    LET notify == previous # current \/ minute = 0
    IN  [notify |-> notify,
         template |-> IF ~notify THEN None
                      ELSE IF current = "down" THEN "server down"
                      ELSE IF current = "unhealthy" THEN "degraded"
                      ELSE IF previous = current THEN "scheduled check"
                      ELSE "recovered"]

C13_DecisionIsFunctionOfTriple ==
    Decided =>
        [notify |-> message # NoMessage, template |-> message.template]
            = PolicyOf(status_before, current_status, current_minute)

\* an unchanged unhealthy status stays silent after a cycle whose POST failed,
\* with an error text of its own
C13_Witness_SilentAfterFailedPost ==
    /\ Decided
    /\ prev_cycle.post_failed
    /\ status_before = "unhealthy"
    /\ current_status = "unhealthy"
    /\ health_result.error = TimeoutError10s
    /\ current_minute = 17
    /\ message = NoMessage

\* no GET and no POST has been issued, now or in an earlier cycle
NothingIssued ==
    /\ gets = 0
    /\ in_flight = 0
    /\ posts = 0
    /\ http_outcome = NoOutcome
    /\ post_log = None
    /\ prev_cycle = NoCycle

\* C14 as stated: without DISCORD_HEART_URL (unset or empty) construction
\* fails and no GET or POST is ever issued; with it, start-up succeeds, and
\* an unset SERVER_URL becomes the local default.
C14_StartupDependsOnWebhookOnly ==
    /\ Falsy(environ.DISCORD_HEART_URL) =>
          (pc = "startup_failed" /\ startup_error # NoField /\ NothingIssued)
    /\ ~Falsy(environ.DISCORD_HEART_URL) =>
          /\ pc # "startup_failed"
          /\ startup_error = NoField
          /\ environ.SERVER_URL = None => api_url = DefaultServerUrl

\* C14 (amended): without DISCORD_HEART_URL (unset or empty) construction
\* fails and no GET or POST is ever issued; with it, start-up succeeds
\* unless SERVER_URL is set to the empty string, which fails construction
\* the same way; an unset SERVER_URL becomes the local default and a
\* non-empty one is used as given.
C14_StartupValidation ==
    /\ Falsy(environ.DISCORD_HEART_URL) =>
          /\ pc = "startup_failed"
          /\ startup_error = "ValueError: DISCORD_HEART_URL"
          /\ NothingIssued
    /\ (~Falsy(environ.DISCORD_HEART_URL) /\ environ.SERVER_URL = "") =>
          /\ pc = "startup_failed"
          /\ startup_error = "ValueError: SERVER_URL"
          /\ NothingIssued
    /\ (~Falsy(environ.DISCORD_HEART_URL) /\ environ.SERVER_URL # "") =>
          /\ pc # "startup_failed"
          /\ startup_error = NoField
          /\ discord_webhook = environ.DISCORD_HEART_URL
          /\ api_url = (IF environ.SERVER_URL = None
                        THEN DefaultServerUrl ELSE environ.SERVER_URL)

\* construction has failed on an empty webhook URL, the server URL being set
C14_Witness_EmptyWebhook ==
    /\ environ.DISCORD_HEART_URL = ""
    /\ environ.SERVER_URL = "http://api.example:9000"
    /\ pc = "startup_failed"
    /\ startup_error = "ValueError: DISCORD_HEART_URL"

\* C15: a cycle issues exactly one GET and at most one POST: from the GET
\* on, the cycle's count of GETs is 1 until the sleep ends, its count of
\* POSTs never exceeds it, and a POST is issued only after the cycle's GET
\* has ended and been classified.  Both counts start again in the same
\* step, so over any run the POSTs never outnumber the GETs.
C15_OneGetAtMostOnePost ==
    /\ [](gets \in {0, 1} /\ posts \in {0, 1} /\ posts <= gets)
    /\ [](gets = 0 <=> pc \in {"check", "startup_failed"})
    /\ [][posts' > posts =>
             /\ gets = 1
             /\ in_flight = 0
             /\ http_outcome # NoOutcome
             /\ health_result.status \in Statuses
             /\ current_status = health_result.status]_vars
    /\ [][(gets' # gets \/ posts' < posts) =>
             \/ (pc = "check" /\ gets' = 1 /\ posts' = posts)
             \/ (pc = "sleep" /\ gets' = 0 /\ posts' = 0)]_vars

\* a later cycle is over with its one GET and its one POST, the POST failed
C15_Witness_CycleWithFailedPost ==
    /\ pc = "sleep"
    /\ gets = 1
    /\ posts = 1
    /\ PostFailed
    /\ prev_cycle # NoCycle

\* C16: an iteration that raises before line 142 leaves last_status as it
\* was when the iteration began, through the handler and the sleep, and the
\* iteration after it computes status_changed against that value.
C16_RaiseKeepsLastStatus ==
    /\ [][(raised' /\ ~raised) => last_status' = last_status]_vars
    /\ [](raised => (pc = "sleep" /\ last_status = status_before))
    /\ [][raised => (~raised' /\ last_status' = status_before
                                /\ status_before' = status_before
                                /\ prev_cycle'.raised)]_vars
    /\ []((Decided /\ prev_cycle.raised) =>
             /\ last_status \in {status_before, current_status}
             /\ status_changed = (status_before # current_status))

\* healthy, then an iteration that raised, then down: reported as a change
C16_Witness_ChangeAfterRaise ==
    /\ Decided
    /\ prev_cycle.raised
    /\ status_before = "healthy"
    /\ current_status = "down"
    /\ status_changed
    /\ message.template = "server down"

\* C17: "scheduled check" is the template only of a cycle whose previous
\* status and current status are both healthy and whose minute is 0; the
\* first iteration announces a healthy result as "recovered", at minute 0
\* too; and "recovered" is the template exactly when the current status is
\* healthy and last_status was unset, unhealthy or down.
C17_ScheduledCheckAndRecovered ==
    Decided =>
        /\ message.template = "scheduled check" =>
              /\ status_before = "healthy"
              /\ current_status = "healthy"
              /\ current_minute = 0
        /\ (prev_cycle = NoCycle /\ current_status = "healthy") =>
              message.template = "recovered"
        /\ message.template = "recovered" <=>
              /\ current_status = "healthy"
              /\ status_before \in {None, "unhealthy", "down"}
        /\ (message.template \in {"scheduled check", "recovered"} /\ pc # "send") =>
              posts = 1

\* the first iteration, at minute 0, has posted "recovered" for a healthy API
C17_Witness_FirstHealthyAtMinuteZero ==
    /\ pc = "update"
    /\ prev_cycle = NoCycle
    /\ status_before = None
    /\ current_status = "healthy"
    /\ current_minute = 0
    /\ hourly_report
    /\ message.template = "recovered"
    /\ posts = 1

\* C18: last_status is always unset or one of healthy, unhealthy, down; it
\* is unset from construction until an iteration carries out its update at
\* line 142, which sets it to a status, and once set it is never unset.
C18_LastStatusDomain ==
    /\ [](last_status \in Statuses \cup {None})
    /\ [](last_status = None =>
             /\ status_before = None
             /\ prev_cycle.status = None
             /\ (pc = "sleep" => raised))
    /\ [][last_status # None => last_status' # None]_vars
    /\ [][last_status' # last_status =>
             (pc = "update" /\ last_status' = current_status)]_vars
    /\ [][(pc = "update" /\ pc' # pc) => last_status' \in Statuses]_vars

\* last_status, once set, has come through an iteration that raised
C18_Witness_SetAcrossRaise ==
    /\ pc = "check"
    /\ prev_cycle.raised
    /\ last_status = "unhealthy"
    /\ status_before = "unhealthy"

============================================================================
